---- MODULE Spec2Model ----
(***************************************************************************)
(* Model of exam.py (class ExamSimulator): the markdown loader             *)
(* (load_questions, compute_question_key) and the quiz session driven by   *)
(* Tk events (toggles, restart, radio selection, click-to-advance, theme,  *)
(* resize).  Text is a sequence of one-character strings; list indices     *)
(* stored by the program (question_order, current_question_index,          *)
(* shuffled_option_indices, selected display index) keep Python's 0-based  *)
(* values, TLA+ sequences are 1-based, so list[i] is written list[i + 1].  *)
(***************************************************************************)
EXTENDS Integers, Sequences, FiniteSets, TLC

\* ------------------------------------------------------------------------
\* Characters and Python string primitives
\* ------------------------------------------------------------------------

\* \d of the re module, on the characters the inputs use
Digit == {"0", "1", "2", "3", "4", "5", "6", "7", "8", "9"}

\* \s of the re module and the characters str.strip() removes
Whitespace == {" ", "\t", "\n", "\r", "\f"}

\* the character class [.,;:()] of compute_question_key
Punctuation == {".", ",", ";", ":", "(", ")"}

UpperToLower ==
    [A |-> "a", B |-> "b", C |-> "c", D |-> "d", E |-> "e", F |-> "f",
     G |-> "g", H |-> "h", I |-> "i", J |-> "j", K |-> "k", L |-> "l",
     M |-> "m", N |-> "n", O |-> "o", P |-> "p", Q |-> "q", R |-> "r",
     S |-> "s", T |-> "t", U |-> "u", V |-> "v", W |-> "w", X |-> "x",
     Y |-> "y", Z |-> "z"]

\* str.lower()
Lower(s) ==
    [i \in 1..Len(s) |-> IF s[i] \in DOMAIN UpperToLower THEN UpperToLower[s[i]] ELSE s[i]]

\* s[i-1:] of Python for a 1-based position i (empty when i is past the end)
From(s, i) == IF i > Len(s) THEN <<>> ELSE SubSeq(s, i, Len(s))

\* first position >= i of s holding a character outside set, Len(s)+1 if none:
\* where a greedy run of the class (\d+, \s+, \s*, #+) that starts at i ends
SkipWhile(s, i, set) ==
    CHOOSE j \in i..(Len(s) + 1) :
        /\ \A k \in i..(j - 1) : s[k] \in set
        /\ (j = Len(s) + 1 \/ s[j] \notin set)

\* whether the literal t occurs in s at position i
StartsWithAt(s, i, t) ==
    /\ i >= 1
    /\ i + Len(t) - 1 <= Len(s)
    /\ \A k \in 1..Len(t) : s[i + k - 1] = t[k]

\* str.find(t): 0-based index of the first occurrence of t in s, -1 if none
Find(s, t) ==
    IF \E i \in 1..(Len(s) + 1) : StartsWithAt(s, i, t)
    THEN (CHOOSE i \in 1..(Len(s) + 1) :
             /\ StartsWithAt(s, i, t)
             /\ \A k \in 1..(i - 1) : ~StartsWithAt(s, k, t)) - 1
    ELSE 0 - 1

\* the `in` operator on strings
Contains(s, t) == \E i \in 1..(Len(s) + 1) : StartsWithAt(s, i, t)

\* str.strip()
Strip(s) ==
    LET a == SkipWhile(s, 1, Whitespace)
    IN  IF a > Len(s) THEN <<>>
        ELSE LET b == CHOOSE j \in a..Len(s) :
                          /\ s[j] \notin Whitespace
                          /\ \A k \in (j + 1)..Len(s) : s[k] \in Whitespace
             IN  SubSeq(s, a, b)

\* str.split("\n"): the pieces between newlines, empty pieces kept
RECURSIVE SplitLines(_)
SplitLines(s) ==
    LET nl == CHOOSE j \in 1..(Len(s) + 1) :
                  /\ \A k \in 1..(j - 1) : s[k] # "\n"
                  /\ (j = Len(s) + 1 \/ s[j] = "\n")
    IN  IF nl > Len(s) THEN <<s>>
        ELSE <<SubSeq(s, 1, nl - 1)>> \o SplitLines(From(s, nl + 1))

\* str.count("\n", 0, end): newlines among the first `end` characters
CountNewlines(s, end) == Cardinality({k \in 1..end : k <= Len(s) /\ s[k] = "\n"})

\* int() of a string of decimal digits
RECURSIVE ToInt(_)
ToInt(ds) ==
    IF ds = <<>> THEN 0
    ELSE ToInt(SubSeq(ds, 1, Len(ds) - 1)) * 10
         + (CHOOSE n \in 0..9 : ToString(n) = ds[Len(ds)])

\* ------------------------------------------------------------------------
\* The regular expressions of load_questions and compute_question_key
\* ------------------------------------------------------------------------

\* \d+\.\s+ tried at position i: the position after the match (digits and
\* whitespace taken greedily), 0 when it does not match there
NumberPrefixEnd(s, i) ==
    IF i < 1 \/ i > Len(s) \/ s[i] \notin Digit THEN 0
    ELSE LET dot == SkipWhile(s, i, Digit)
         IN  IF dot + 1 <= Len(s) /\ s[dot] = "." /\ s[dot + 1] \in Whitespace
             THEN SkipWhile(s, dot + 1, Whitespace)
             ELSE 0

\* the lookahead (?=\n\d+\.\s+|\n##|\n### |\Z) at position e
BlockEndsAt(s, e) ==
    \/ e = Len(s) + 1
    \/ /\ e <= Len(s)
       /\ s[e] = "\n"
       /\ \/ NumberPrefixEnd(s, e + 1) # 0
          \/ StartsWithAt(s, e + 1, <<"#", "#">>)
          \/ StartsWithAt(s, e + 1, <<"#", "#", "#", " ">>)

\* re.findall(r"(\d+\.\s+.*?)(?=\n\d+\.\s+|\n##|\n### |\Z)", content, re.DOTALL)
\* from position p on: the leftmost start where \d+\.\s+ matches, the lazy
\* .*? extended to the first position where the lookahead holds, then on
\* from the end of that match
RECURSIVE FindBlocks(_, _)
FindBlocks(s, p) ==
    IF \A st \in p..Len(s) : NumberPrefixEnd(s, st) = 0 THEN <<>>
    ELSE LET st == CHOOSE x \in p..Len(s) :
                       /\ NumberPrefixEnd(s, x) # 0
                       /\ \A y \in p..(x - 1) : NumberPrefixEnd(s, y) = 0
             body == NumberPrefixEnd(s, st)
             e == CHOOSE x \in body..(Len(s) + 1) :
                      /\ BlockEndsAt(s, x)
                      /\ \A y \in body..(x - 1) : ~BlockEndsAt(s, y)
         IN  <<SubSeq(s, st, e - 1)>> \o FindBlocks(s, e)

\* the matches of the same pattern from position p on, as the positions of
\* their first and last character (match.start() + 1, match.end())
RECURSIVE BlockSpans(_, _)
BlockSpans(s, p) ==
    IF \A st \in p..Len(s) : NumberPrefixEnd(s, st) = 0 THEN <<>>
    ELSE LET st == CHOOSE x \in p..Len(s) :
                       /\ NumberPrefixEnd(s, x) # 0
                       /\ \A y \in p..(x - 1) : NumberPrefixEnd(s, y) = 0
             body == NumberPrefixEnd(s, st)
             e == CHOOSE x \in body..(Len(s) + 1) :
                      /\ BlockEndsAt(s, x)
                      /\ \A y \in body..(x - 1) : ~BlockEndsAt(s, y)
         IN  <<[first |-> st, last |-> e - 1]>> \o BlockSpans(s, e)

\* re.match(r"^#+\s+(.+)$", line): group 1, or <<>> when the line is no
\* heading.  \s+ is greedy and gives one character back when nothing else
\* is left for (.+)
SectionMatch(line) ==
    LET h == SkipWhile(line, 1, {"#"})
        w == SkipWhile(line, h, Whitespace)
    IN  IF h = 1 \/ w = h THEN <<>>
        ELSE IF w <= Len(line) THEN From(line, w)
        ELSE IF w - h >= 2 THEN <<line[Len(line)]>>
        ELSE <<>>

\* re.search(r"<!--\s*valid:\s*(\d+)\s*-->", line) tried at position i:
\* the digits of group 1, <<>> when it does not match there
ValidMatchAt(line, i) ==
    IF ~StartsWithAt(line, i, <<"<", "!", "-", "-">>) THEN <<>>
    ELSE LET a == SkipWhile(line, i + 4, Whitespace)
         IN  IF ~StartsWithAt(line, a, <<"v", "a", "l", "i", "d", ":">>) THEN <<>>
             ELSE LET b == SkipWhile(line, a + 6, Whitespace)
                      c == SkipWhile(line, b, Digit)
                      d == SkipWhile(line, c, Whitespace)
                  IN  IF c > b /\ StartsWithAt(line, d, <<"-", "-", ">">>)
                      THEN SubSeq(line, b, c - 1)
                      ELSE <<>>

\* the digits of the first match of the valid: comment in the line, <<>> if none
ValidMatch(line) ==
    IF \A i \in 1..Len(line) : ValidMatchAt(line, i) = <<>> THEN <<>>
    ELSE ValidMatchAt(line, CHOOSE i \in 1..Len(line) :
                                /\ ValidMatchAt(line, i) # <<>>
                                /\ \A k \in 1..(i - 1) : ValidMatchAt(line, k) = <<>>)

\* re.sub(r"<!--.*?-->", "", s): every leftmost, shortest comment removed
\* (`.` does not match a newline)
RECURSIVE RemoveComments(_)
RemoveComments(s) ==
    LET Closes(i, j) ==
            /\ StartsWithAt(s, j, <<"-", "-", ">">>)
            /\ \A k \in (i + 4)..(j - 1) : s[k] # "\n"
        Opens(i) ==
            /\ StartsWithAt(s, i, <<"<", "!", "-", "-">>)
            /\ \E j \in (i + 4)..Len(s) : Closes(i, j)
    IN  IF \A i \in 1..Len(s) : ~Opens(i) THEN s
        ELSE LET i == CHOOSE x \in 1..Len(s) :
                          Opens(x) /\ \A y \in 1..(x - 1) : ~Opens(y)
                 j == CHOOSE x \in (i + 4)..Len(s) :
                          Closes(i, x) /\ \A y \in (i + 4)..(x - 1) : ~Closes(i, y)
             IN  SubSeq(s, 1, i - 1) \o RemoveComments(From(s, j + 3))

\* re.sub(r"[.,;:()]", "", s)
RemovePunctuation(s) == SelectSeq(s, LAMBDA c : c \notin Punctuation)

\* re.sub(r"\s+", " ", s): every run of whitespace becomes one space
RECURSIVE CollapseWhitespace(_)
CollapseWhitespace(s) ==
    IF s = <<>> THEN <<>>
    ELSE IF s[1] \in Whitespace
         THEN <<" ">> \o CollapseWhitespace(From(s, SkipWhile(s, 1, Whitespace)))
         ELSE <<s[1]>> \o CollapseWhitespace(From(s, 2))

\* ExamSimulator.compute_question_key
compute_question_key(question) ==
    LET no_comments == RemoveComments(Strip(Lower(question.question)))
        no_punct == RemovePunctuation(no_comments)
    IN  CollapseWhitespace(no_punct)

\* ------------------------------------------------------------------------
\* load_questions: blocks, sections, question records, duplicates
\* ------------------------------------------------------------------------

AI_MARKER == <<"[", "A", "I", "-", "G", "e", "n", "e", "r", "a", "t", "e", "d", "]">>

UNKNOWN_EXAM == <<"U", "n", "k", "n", "o", "w", "n", " ", "E", "x", "a", "m">>

\* line numbers (1-based, as line_number counts them) of the heading lines:
\* the keys of the `sections` dict
SectionLines(content) ==
    LET lines == SplitLines(content)
    IN  {n \in 1..Len(lines) : SectionMatch(lines[n]) # <<>>}

\* sections[n]
SectionName(content, n) == SectionMatch(SplitLines(content)[n])

Max(S) == CHOOSE x \in S : \A y \in S : y <= x

\* current_section once the loop over the lines has ended: the last heading of
\* the file, "Unknown Exam" when the file has none
LastSection(content) ==
    IF SectionLines(content) = {} THEN UNKNOWN_EXAM
    ELSE SectionName(content, Max(SectionLines(content)))

\* the section given to a block: line_num counts the newlines before the first
\* occurrence of the block's text in the file; the nearest heading whose line
\* number is <= line_num is taken, else current_section
SectionOfBlock(content, block) ==
    LET line_num == CountNewlines(content, Find(content, block))
        before == {n \in SectionLines(content) : n <= line_num}
    IN  IF before = {} THEN LastSection(content)
        ELSE SectionName(content, Max(before))

\* valid_answers: 1, or the number of the first line of the block that holds a
\* valid: comment
ValidAnswers(lines) ==
    IF \A n \in 1..Len(lines) : ValidMatch(lines[n]) = <<>> THEN 1
    ELSE ToInt(ValidMatch(lines[CHOOSE n \in 1..Len(lines) :
                                    /\ ValidMatch(lines[n]) # <<>>
                                    /\ \A m \in 1..(n - 1) : ValidMatch(lines[m]) = <<>>]))

\* the text of an option line (re.match / re.sub of ^\s*\d+\.\s+), stripped;
\* <<>> when the line is no option line or its text is blank
OptionText(line) ==
    LET e == NumberPrefixEnd(line, SkipWhile(line, 1, Whitespace))
    IN  IF e = 0 THEN <<>> ELSE Strip(From(line, e))

\* option_lines: the non-blank option texts of lines[1:], in order
RECURSIVE OptionLines(_)
OptionLines(rest) ==
    IF rest = <<>> THEN <<>>
    ELSE (IF OptionText(rest[1]) = <<>> THEN <<>> ELSE <<OptionText(rest[1])>>)
         \o OptionLines(Tail(rest))

\* the loop over question_blocks without `if option_lines:`
ParseBlock_keeps_empty_options(content, block) ==
    LET lines == SplitLines(Strip(block))
        text_at == NumberPrefixEnd(lines[1], 1)
        question_data ==
            [question |-> Strip(From(lines[1], text_at)),
             options |-> OptionLines(Tail(lines)),
             correct_answer |-> 0,
             valid_answers |-> ValidAnswers(lines),
             is_ai |-> Contains(lines[1], AI_MARKER),
             source_exam |-> SectionOfBlock(content, block)]
    IN  IF Len(lines) < 2 \/ text_at = 0 THEN <<>>
        ELSE <<question_data @@ [key |-> compute_question_key(question_data)]>>

\* one pass of the loop over question_blocks: the question record appended for
\* the block, as a sequence of length 1, or <<>> when the block is skipped
ParseBlock(content, block) ==
    LET lines == SplitLines(Strip(block))
        text_at == NumberPrefixEnd(lines[1], 1)
        question_text == Strip(From(lines[1], text_at))
        options == OptionLines(Tail(lines))
        question_data ==
            [question |-> question_text,
             options |-> options,
             correct_answer |-> 0,
             valid_answers |-> ValidAnswers(lines),
             is_ai |-> Contains(lines[1], AI_MARKER),
             source_exam |-> SectionOfBlock(content, block)]
    IN  IF Len(lines) < 2 \/ text_at = 0 \/ options = <<>> THEN <<>>
        ELSE <<question_data @@ [key |-> compute_question_key(question_data)]>>

\* self.questions after the loop over the blocks
RECURSIVE ParseBlocks(_, _)
ParseBlocks(content, blocks) ==
    IF blocks = <<>> THEN <<>>
    ELSE ParseBlock(content, blocks[1]) \o ParseBlocks(content, Tail(blocks))

\* question_key_map[key]: the indices (0-based, ascending) of the questions
\* that have the key
KeyIndices(qs, key) ==
    SelectSeq([i \in 1..Len(qs) |-> i - 1], LAMBDA i : qs[i + 1].key = key)

\* the loop over question_key_map appending every index of a group
UniqueIndices_every_member(qs) == [i \in 1..Len(qs) |-> i - 1]

\* what the loop over question_key_map appends to unique_questions: indices[0]
\* of every key, in the order the keys were first inserted
UniqueIndices(qs) ==
    SelectSeq([i \in 1..Len(qs) |-> i - 1],
              LAMBDA i : KeyIndices(qs, qs[i + 1].key)[1] = i)

\* the loop over question_key_map recording only the base question's section
MarkDuplicates_base_source_only(qs) ==
    [n \in 1..Len(qs) |->
        LET indices == KeyIndices(qs, qs[n].key)
        IN  IF indices[1] = n - 1
            THEN qs[n] @@ [duplicate_count |-> Len(indices),
                           duplicate_sources |-> <<qs[n].source_exam>>]
            ELSE qs[n]]

\* the question list after the loop over question_key_map: the first question
\* of every key gets duplicate_count and duplicate_sources, the other members
\* of a group get neither
MarkDuplicates(qs) ==
    [n \in 1..Len(qs) |->
        LET indices == KeyIndices(qs, qs[n].key)
        IN  IF indices[1] = n - 1
            THEN qs[n] @@ [duplicate_count |-> Len(indices),
                           duplicate_sources |->
                               [k \in 1..Len(indices) |-> qs[indices[k] + 1].source_exam]]
            ELSE qs[n]]

\* ------------------------------------------------------------------------
\* State
\* ------------------------------------------------------------------------

VARIABLES
    pc,                      \* "start" before ExamSimulator(root, exam_file), then "mainloop"
    exam_file,               \* the path argument: NO_PATH or a path
    file_exists,             \* os.path.exists(exam_file)
    content,                 \* what file.read() returns
    messagebox,              \* the last messagebox.showerror, "" if none
    questions,
    unique_questions,
    question_order,
    current_question_index,
    selected_answer,         \* the StringVar: NO_SELECTION for "", else a display index
    score,
    questions_answered,
    randomized,
    result_shown,
    dark_mode,
    window_width,
    window_height,
    randomize_var,
    non_ai_var,
    dark_mode_var,
    answer_widgets,          \* per display row: the radio's text and state, the icon
    shuffled_option_indices,
    question_text,           \* the question label
    status_label,
    button1_bound,           \* whether <Button-1> is bound to advance_to_next
    raised,                  \* whether the last callback ended in an exception
    session_ended,           \* history: advance_to_next took its final-score branch
                             \* and restart_quiz has not run since
    event                    \* the callback that ran last

vars ==
    <<pc, exam_file, file_exists, content, messagebox, questions, unique_questions,
      question_order, current_question_index, selected_answer, score,
      questions_answered, randomized, result_shown, dark_mode, window_width,
      window_height, randomize_var, non_ai_var, dark_mode_var, answer_widgets,
      shuffled_option_indices, question_text, status_label, button1_bound, raised,
      session_ended, event>>

\* the object (and the file it is given) as one record, for the methods below
self ==
    [exam_file |-> exam_file, file_exists |-> file_exists, content |-> content,
     messagebox |-> messagebox, questions |-> questions,
     unique_questions |-> unique_questions, question_order |-> question_order,
     current_question_index |-> current_question_index,
     selected_answer |-> selected_answer, score |-> score,
     questions_answered |-> questions_answered, randomized |-> randomized,
     result_shown |-> result_shown, dark_mode |-> dark_mode,
     window_width |-> window_width, window_height |-> window_height,
     randomize_var |-> randomize_var, non_ai_var |-> non_ai_var,
     dark_mode_var |-> dark_mode_var, answer_widgets |-> answer_widgets,
     shuffled_option_indices |-> shuffled_option_indices,
     question_text |-> question_text, status_label |-> status_label,
     button1_bound |-> button1_bound, raised |-> raised,
     session_ended |-> session_ended]

\* the object after a callback
Becomes(o) ==
    /\ exam_file' = o.exam_file
    /\ file_exists' = o.file_exists
    /\ content' = o.content
    /\ messagebox' = o.messagebox
    /\ questions' = o.questions
    /\ unique_questions' = o.unique_questions
    /\ question_order' = o.question_order
    /\ current_question_index' = o.current_question_index
    /\ selected_answer' = o.selected_answer
    /\ score' = o.score
    /\ questions_answered' = o.questions_answered
    /\ randomized' = o.randomized
    /\ result_shown' = o.result_shown
    /\ dark_mode' = o.dark_mode
    /\ window_width' = o.window_width
    /\ window_height' = o.window_height
    /\ randomize_var' = o.randomize_var
    /\ non_ai_var' = o.non_ai_var
    /\ dark_mode_var' = o.dark_mode_var
    /\ answer_widgets' = o.answer_widgets
    /\ shuffled_option_indices' = o.shuffled_option_indices
    /\ question_text' = o.question_text
    /\ status_label' = o.status_label
    /\ button1_bound' = o.button1_bound
    /\ raised' = o.raised
    /\ session_ended' = o.session_ended

NO_PATH == ""

NO_SELECTION == 0 - 1

\* random.shuffle(list): every arrangement of the list
Shuffles(list) ==
    {[i \in 1..Len(list) |-> list[f[i]]] : f \in Permutations(1..Len(list))}

\* ------------------------------------------------------------------------
\* Methods of ExamSimulator.  A method maps the object to the set of objects
\* it can leave behind (more than one where random.shuffle is called); an
\* exception ends the callback with `raised` set and the assignments made so
\* far kept.
\* ------------------------------------------------------------------------

\* update_status: the text of the status bar
update_status(o) ==
    [o EXCEPT !.status_label =
        [kind |-> "progress",
         score |-> o.score,
         answered |-> o.questions_answered,
         number |-> o.current_question_index + 1,
         count |-> Len(o.question_order),
         non_ai_only |-> o.non_ai_var,
         randomized |-> o.randomized]]

\* the list comprehension of initialize_question_order
FilteredIndices(o) ==
    SelectSeq(o.unique_questions,
              LAMBDA i : ~(o.non_ai_var /\ o.questions[i + 1].is_ai))

\* initialize_question_order shuffling whatever self.randomized says
initialize_question_order_always_shuffles(o) ==
    {[o EXCEPT !.question_order = order] : order \in Shuffles(FilteredIndices(o))}

initialize_question_order(o) ==
    IF o.randomized
    THEN {[o EXCEPT !.question_order = order] : order \in Shuffles(FilteredIndices(o))}
    ELSE {[o EXCEPT !.question_order = FilteredIndices(o)]}

\* get_current_question: None, the question record, or the IndexError of
\* question_order[current_question_index]
get_current_question(o) ==
    IF o.questions = <<>> \/ o.question_order = <<>>
    THEN [kind |-> "None"]
    ELSE IF o.current_question_index >= Len(o.question_order)
    THEN [kind |-> "IndexError"]
    ELSE [kind |-> "question",
          data |-> o.questions[o.question_order[o.current_question_index + 1] + 1]]

\* the rows show_question builds for a question shown in the display order
\* `shuffled`: (radio text, radio state, icon)
OptionRows(question_data, shuffled) ==
    [d \in 1..Len(shuffled) |->
        [text |-> question_data.options[shuffled[d] + 1], state |-> "normal", icon |-> ""]]

\* the text of the question label: the prefix number, the question with its
\* comments removed, and the sections listed after it
QuestionLabel(o, question_data) ==
    [number |-> o.current_question_index + 1,
     question |-> Strip(RemoveComments(question_data.question)),
     sections |-> IF "duplicate_count" \in DOMAIN question_data
                     /\ question_data.duplicate_count > 1
                  THEN question_data.duplicate_sources
                  ELSE <<question_data.source_exam>>]

\* show_question without `if not self.questions: return`
show_question_without_guard(o) ==
    LET cleared == [o EXCEPT !.answer_widgets = <<>>,
                             !.button1_bound = FALSE,
                             !.result_shown = FALSE]
        current == get_current_question(cleared)
    IN  IF current.kind # "question"
        THEN {[cleared EXCEPT !.raised = TRUE]}
        ELSE {update_status(
                 [cleared EXCEPT
                     !.question_text = QuestionLabel(cleared, current.data),
                     !.selected_answer = NO_SELECTION,
                     !.shuffled_option_indices = shuffled,
                     !.answer_widgets = OptionRows(current.data, shuffled)])
              : shuffled \in Shuffles([i \in 1..Len(current.data.options) |-> i - 1])}

\* show_question without `self.root.unbind("<Button-1>")`
show_question_keeps_binding(o) ==
    LET cleared == [o EXCEPT !.answer_widgets = <<>>,
                             !.result_shown = FALSE]
        current == get_current_question(cleared)
    IN  IF cleared.questions = <<>> THEN {cleared}
        ELSE IF current.kind # "question"
        THEN {[cleared EXCEPT !.raised = TRUE]}
        ELSE {update_status(
                 [cleared EXCEPT
                     !.question_text = QuestionLabel(cleared, current.data),
                     !.selected_answer = NO_SELECTION,
                     !.shuffled_option_indices = shuffled,
                     !.answer_widgets = OptionRows(current.data, shuffled)])
              : shuffled \in Shuffles([i \in 1..Len(current.data.options) |-> i - 1])}

show_question(o) ==
    LET cleared == [o EXCEPT !.answer_widgets = <<>>,
                             !.button1_bound = FALSE,
                             !.result_shown = FALSE]
        current == get_current_question(cleared)
    IN  IF cleared.questions = <<>> THEN {cleared}
        ELSE IF current.kind # "question"
        THEN \* question_data["question"] on None: TypeError
             {[cleared EXCEPT !.raised = TRUE]}
        ELSE {update_status(
                 [cleared EXCEPT
                     !.question_text = QuestionLabel(cleared, current.data),
                     !.selected_answer = NO_SELECTION,
                     !.shuffled_option_indices = shuffled,
                     !.answer_widgets = OptionRows(current.data, shuffled)])
              : shuffled \in Shuffles([i \in 1..Len(current.data.options) |-> i - 1])}

load_questions(o) ==
    IF o.exam_file = NO_PATH
    THEN {[o EXCEPT !.messagebox = "No exam file specified"]}
    ELSE IF ~o.file_exists
    THEN {[o EXCEPT !.messagebox = "Exam file not found"]}
    ELSE LET parsed == ParseBlocks(o.content, FindBlocks(o.content, 1))
             loaded == [o EXCEPT
                           !.questions = MarkDuplicates(parsed),
                           !.unique_questions = o.unique_questions \o UniqueIndices(parsed)]
         IN  IF loaded.questions = <<>>
             THEN {[loaded EXCEPT !.messagebox = "No valid questions found"]}
             ELSE {update_status(ordered) : ordered \in initialize_question_order(loaded)}

\* restart_quiz that also calls initialize_question_order
restart_quiz_reshuffles(o) ==
    UNION {show_question([ordered EXCEPT !.current_question_index = 0,
                                         !.score = 0,
                                         !.questions_answered = 0,
                                         !.session_ended = FALSE])
           : ordered \in initialize_question_order(o)}

\* restart_quiz without its `self.score = 0`
restart_quiz_keeps_score(o) ==
    show_question([o EXCEPT !.current_question_index = 0,
                            !.questions_answered = 0,
                            !.session_ended = FALSE])

restart_quiz(o) ==
    show_question([o EXCEPT !.current_question_index = 0,
                            !.score = 0,
                            !.questions_answered = 0,
                            !.session_ended = FALSE])

toggle_randomize(o) ==
    UNION {restart_quiz(ordered) :
              ordered \in initialize_question_order([o EXCEPT !.randomized = o.randomize_var])}

\* toggle_non_ai_only without its call of initialize_question_order
toggle_non_ai_only_keeps_order(o) == restart_quiz(o)

toggle_non_ai_only(o) ==
    UNION {restart_quiz(ordered) : ordered \in initialize_question_order(o)}

\* toggle_theme going through restart_quiz to draw the question again
toggle_theme_restarts(o) ==
    LET themed == [o EXCEPT !.dark_mode = o.dark_mode_var]
    IN  IF themed.questions # <<>> THEN restart_quiz(themed) ELSE {themed}

\* (after __init__ the object always has `questions` and `answer_widgets`, so
\* the two hasattr tests hold)
toggle_theme(o) ==
    LET themed == [o EXCEPT !.dark_mode = o.dark_mode_var]
    IN  IF themed.questions # <<>> THEN show_question(themed) ELSE {themed}

\* is_correct taken from the display row instead of the option's file index
is_correct_by_display_row(o, question_data, display_index) ==
    display_index < question_data.valid_answers

\* is_correct of show_result: the option shown in row display_index, mapped
\* back to its index in the file, against the valid-answer count
is_correct(o, question_data, display_index) ==
    o.shuffled_option_indices[display_index + 1] < question_data.valid_answers

\* show_result with `self.questions_answered += 1` moved under `if is_correct`
show_result_counts_correct_only(o, display_index) ==
    LET current == get_current_question(o)
        right == is_correct(o, current.data, display_index)
    IN  {[update_status(
             [o EXCEPT
                 !.answer_widgets =
                     [d \in 1..Len(@) |-> [@[d] EXCEPT !.state = "disabled"]],
                 !.score = IF right THEN @ + 1 ELSE @,
                 !.questions_answered = IF right THEN @ + 1 ELSE @])
          EXCEPT !.result_shown = TRUE, !.button1_bound = TRUE]}

show_result(o, display_index) ==
    LET current == get_current_question(o)
        valid_answers_count == current.data.valid_answers
        rows == [d \in 1..Len(o.answer_widgets) |->
                    [o.answer_widgets[d] EXCEPT
                        !.state = "disabled",
                        !.icon = IF o.shuffled_option_indices[d] < valid_answers_count
                                 THEN "check"
                                 ELSE IF d - 1 = display_index THEN "cross" ELSE ""]]
    IN  IF current.kind # "question"
        THEN \* question_data.get on None: AttributeError
             {[o EXCEPT !.raised = TRUE]}
        ELSE {[update_status(
                  [o EXCEPT
                      !.answer_widgets = rows,
                      !.score = IF is_correct(o, current.data, display_index)
                                THEN @ + 1 ELSE @,
                      !.questions_answered = @ + 1])
               EXCEPT !.result_shown = TRUE, !.button1_bound = TRUE]}

\* on_radio_selected without `if self.result_shown: return`
on_radio_selected_unguarded(o) ==
    IF o.selected_answer = NO_SELECTION THEN {o}
    ELSE show_result(o, o.selected_answer)

on_radio_selected(o) ==
    IF o.result_shown \/ o.selected_answer = NO_SELECTION THEN {o}
    ELSE show_result(o, o.selected_answer)

\* the total of the final score
FinalTotal(o) ==
    IF o.non_ai_var
    THEN Len(SelectSeq(o.questions, LAMBDA q : ~q.is_ai))
    ELSE Len(o.questions)

\* advance_to_next without the test against len(self.question_order) - 1
advance_to_next_unguarded(o) ==
    show_question([o EXCEPT !.button1_bound = FALSE, !.current_question_index = @ + 1])

advance_to_next(o) ==
    LET unbound == [o EXCEPT !.button1_bound = FALSE]
    IN  IF unbound.current_question_index < Len(unbound.question_order) - 1
        THEN show_question([unbound EXCEPT !.current_question_index = @ + 1])
        ELSE {[unbound EXCEPT
                  !.status_label = [kind |-> "end", score |-> unbound.score,
                                    total |-> FinalTotal(unbound)],
                  !.answer_widgets = [d \in 1..Len(@) |-> [@[d] EXCEPT !.state = "disabled"]],
                  !.session_ended = TRUE]}

on_window_resize(o, ev) ==
    IF ev.widget # "root" THEN {o}
    ELSE {[o EXCEPT !.window_width = ev.width, !.window_height = ev.height]}

\* __init__: the fields as assigned, then load_questions and show_question
construct(o) ==
    UNION {show_question(loaded) : loaded \in load_questions(o)}

\* ------------------------------------------------------------------------
\* Inputs: the exam files a session is started on
\* ------------------------------------------------------------------------

\* ## A | 1. P? |    1. y |    2. n | 2. [AI-Generated] Q? |    1. y | ## B | 3. R? |    1. y | 4. p? |    1. y |    2. n
EXAM_MIXED ==
    <<"#", "#", " ", "A", "\n", "1", ".", " ", "P", "?", "\n", " ", " ", " ", "1", ".",
      " ", "y", "\n", " ", " ", " ", "2", ".", " ", "n", "\n", "2", ".", " ", "[", "A",
      "I", "-", "G", "e", "n", "e", "r", "a", "t", "e", "d", "]", " ", "Q", "?", "\n",
      " ", " ", " ", "1", ".", " ", "y", "\n", "#", "#", " ", "B", "\n", "3", ".", " ",
      "R", "?", "\n", " ", " ", " ", "1", ".", " ", "y", "\n", "4", ".", " ", "p", "?",
      "\n", " ", " ", " ", "1", ".", " ", "y", "\n", " ", " ", " ", "2", ".", " ", "n">>

\* 1. [AI-Generated] S? |    1. y | 2. [AI-Generated] T? |    1. y
EXAM_ALL_AI ==
    <<"1", ".", " ", "[", "A", "I", "-", "G", "e", "n", "e", "r", "a", "t", "e", "d",
      "]", " ", "S", "?", "\n", " ", " ", " ", "1", ".", " ", "y", "\n", "2", ".", " ",
      "[", "A", "I", "-", "G", "e", "n", "e", "r", "a", "t", "e", "d", "]", " ", "T",
      "?", "\n", " ", " ", " ", "1", ".", " ", "y">>

\* 1. W? <!-- valid: 2 --> |    1. A |    2. B |    3. C |    4. D
EXAM_FOUR_OPTIONS ==
    <<"1", ".", " ", "W", "?", " ", "<", "!", "-", "-", " ", "v", "a", "l", "i", "d",
      ":", " ", "2", " ", "-", "-", ">", "\n", " ", " ", " ", "1", ".", " ", "A", "\n",
      " ", " ", " ", "2", ".", " ", "B", "\n", " ", " ", " ", "3", ".", " ", "C", "\n",
      " ", " ", " ", "4", ".", " ", "D">>

\* # Notes | 1. no options | 
EXAM_NO_QUESTIONS ==
    <<"#", " ", "N", "o", "t", "e", "s", "\n", "1", ".", " ", "n", "o", " ", "o", "p",
      "t", "i", "o", "n", "s", "\n">>


\* (exam_file, os.path.exists, file content) of the sessions explored
SessionFiles ==
    {[path |-> NO_PATH, exists |-> FALSE, text |-> <<>>],
     [path |-> "missing.md", exists |-> FALSE, text |-> <<>>],
     [path |-> "empty.md", exists |-> TRUE, text |-> EXAM_NO_QUESTIONS],
     [path |-> "mixed.md", exists |-> TRUE, text |-> EXAM_MIXED],
     [path |-> "all_ai.md", exists |-> TRUE, text |-> EXAM_ALL_AI]}

\* the screen, and the sizes a <Configure> event reports
SCREEN == [width |-> 1920, height |-> 1080]

WindowSizes == {SCREEN, [width |-> 800, height |-> 800]}

\* answers recorded in one run of the model (a theme toggle lets the same
\* question be answered again, so the count has no bound of its own)
MaxAnswered == 3

\* ------------------------------------------------------------------------
\* Initial state and the Tk events
\* ------------------------------------------------------------------------

\* the fields as __init__ and setup_ui assign them, before load_questions
InitOn(files) ==
    /\ pc = "start"
    /\ \E f \in files :
          /\ exam_file = f.path
          /\ file_exists = f.exists
          /\ content = f.text
    /\ messagebox = ""
    /\ questions = <<>>
    /\ unique_questions = <<>>
    /\ question_order = <<>>
    /\ current_question_index = 0
    /\ selected_answer = NO_SELECTION
    /\ score = 0
    /\ questions_answered = 0
    /\ randomized = FALSE
    /\ result_shown = FALSE
    /\ dark_mode = FALSE
    /\ window_width = SCREEN.width
    /\ window_height = SCREEN.height
    /\ randomize_var = FALSE
    /\ non_ai_var = FALSE
    /\ dark_mode_var = FALSE
    /\ answer_widgets = <<>>
    /\ shuffled_option_indices = <<>>
    /\ question_text = [number |-> 0, question |-> <<>>, sections |-> <<>>]
    /\ status_label = [kind |-> "empty"]
    /\ button1_bound = FALSE
    /\ raised = FALSE
    /\ session_ended = FALSE
    /\ event = "none"

Init == InitOn(SessionFiles)

\* ExamSimulator(root, exam_file=exam_file)
Construct ==
    /\ pc = "start"
    /\ pc' = "mainloop"
    /\ event' = "__init__"
    /\ \E o \in construct(self) : Becomes(o)

\* Tk runs callback `name` from the main loop; `outcomes` is what it can leave
Callback(name, outcomes) ==
    /\ pc = "mainloop"
    /\ pc' = pc
    /\ event' = name
    /\ \E o \in outcomes : Becomes(o)

\* the object as a callback finds it
entered == [self EXCEPT !.raised = FALSE]

\* the "Randomize Questions" checkbutton: the variable flips, then the command
RandomizeOutcomes == toggle_randomize([entered EXCEPT !.randomize_var = ~@])

ClickRandomize == Callback("toggle_randomize", RandomizeOutcomes)

\* the "Show only non-AI questions" checkbutton
NonAiOnlyOutcomes == toggle_non_ai_only([entered EXCEPT !.non_ai_var = ~@])

ClickNonAiOnly == Callback("toggle_non_ai_only", NonAiOnlyOutcomes)

\* the "Dark Mode" checkbutton
DarkModeOutcomes == toggle_theme([entered EXCEPT !.dark_mode_var = ~@])

ClickDarkMode == Callback("toggle_theme", DarkModeOutcomes)

\* the "Restart Quiz" button
RestartOutcomes == restart_quiz(entered)

ClickRestart == Callback("restart_quiz", RestartOutcomes)

\* a radio button that is not disabled is chosen: the StringVar takes its
\* display index, then the command runs
SelectRadio ==
    /\ questions_answered < MaxAnswered
    /\ \E d \in 0..(Len(answer_widgets) - 1) :
          /\ answer_widgets[d + 1].state = "normal"
          /\ Callback("on_radio_selected",
                      on_radio_selected([entered EXCEPT !.selected_answer = d]))

\* <Button-1> anywhere in the window while the binding of show_result is in place
ClickWindow ==
    /\ button1_bound
    /\ Callback("advance_to_next", advance_to_next(entered))

\* <Configure> of the root window or, passed on to the root's binding, of a
\* widget inside it
Resize ==
    \E size \in WindowSizes, widget \in {"root", "child"} :
        Callback("on_window_resize",
                 on_window_resize(entered, [widget |-> widget, width |-> size.width,
                                            height |-> size.height]))

Next ==
    \/ Construct
    \/ ClickRandomize
    \/ ClickNonAiOnly
    \/ ClickDarkMode
    \/ ClickRestart
    \/ SelectRadio
    \/ ClickWindow
    \/ Resize

Spec == Init /\ [][Next]_vars

\* Answering alone: sessions on the four-option question and on the mixed
\* file, driven by radio selections, clicks to advance and restarts
AnswerFiles ==
    {[path |-> "four.md", exists |-> TRUE, text |-> EXAM_FOUR_OPTIONS],
     [path |-> "mixed.md", exists |-> TRUE, text |-> EXAM_MIXED]}

AnswerInit == InitOn(AnswerFiles)

AnswerNext ==
    \/ Construct
    \/ SelectRadio
    \/ ClickWindow
    \/ ClickRestart

AnswerSpec == AnswerInit /\ [][AnswerNext]_vars

\* ------------------------------------------------------------------------
\* Inputs of the loader: files put together from headings and question blocks
\* ------------------------------------------------------------------------

\* ## A
HEADING_A ==
    <<"#", "#", " ", "A">>

\* ### B
HEADING_B ==
    <<"#", "#", "#", " ", "B">>

\* 1. Foo bar |    1. y |    2. n
BLOCK_PLAIN ==
    <<"1", ".", " ", "F", "o", "o", " ", "b", "a", "r", "\n", " ", " ", " ", "1", ".",
      " ", "y", "\n", " ", " ", " ", "2", ".", " ", "n">>

\* 2. Foo  bar. |    1. y
BLOCK_SPACED ==
    <<"2", ".", " ", "F", "o", "o", " ", " ", "b", "a", "r", ".", "\n", " ", " ", " ",
      "1", ".", " ", "y">>

\* 3. Foo <!-- c -->bar |    1. y
BLOCK_COMMENT_INSIDE ==
    <<"3", ".", " ", "F", "o", "o", " ", "<", "!", "-", "-", " ", "c", " ", "-", "-",
      ">", "b", "a", "r", "\n", " ", " ", " ", "1", ".", " ", "y">>

\* 4. Foo bar <!-- valid: 2 --> |    1. y |    2. n
BLOCK_VALID_AT_END ==
    <<"4", ".", " ", "F", "o", "o", " ", "b", "a", "r", " ", "<", "!", "-", "-", " ",
      "v", "a", "l", "i", "d", ":", " ", "2", " ", "-", "-", ">", "\n", " ", " ", " ",
      "1", ".", " ", "y", "\n", " ", " ", " ", "2", ".", " ", "n">>

\* 5. [AI-Generated] Foo bar |    1. y
BLOCK_AI ==
    <<"5", ".", " ", "[", "A", "I", "-", "G", "e", "n", "e", "r", "a", "t", "e", "d",
      "]", " ", "F", "o", "o", " ", "b", "a", "r", "\n", " ", " ", " ", "1", ".", " ",
      "y">>

\* 6. Baz |    1. y
BLOCK_OTHER ==
    <<"6", ".", " ", "B", "a", "z", "\n", " ", " ", " ", "1", ".", " ", "y">>

\* 7. Qux
BLOCK_NO_OPTIONS ==
    <<"7", ".", " ", "Q", "u", "x">>

\* 8. Quux |    <!-- valid: 3 --> |    1. y |    2. n
BLOCK_VALID_THREE ==
    <<"8", ".", " ", "Q", "u", "u", "x", "\n", " ", " ", " ", "<", "!", "-", "-", " ",
      "v", "a", "l", "i", "d", ":", " ", "3", " ", "-", "-", ">", "\n", " ", " ", " ",
      "1", ".", " ", "y", "\n", " ", " ", " ", "2", ".", " ", "n">>

\* 9. Quuz |    1.  |    note
BLOCK_BLANK_OPTION ==
    <<"9", ".", " ", "Q", "u", "u", "z", "\n", " ", " ", " ", "1", ".", " ", "\n", " ",
      " ", " ", "n", "o", "t", "e">>

Pieces ==
    {HEADING_A, HEADING_B, BLOCK_PLAIN, BLOCK_SPACED, BLOCK_COMMENT_INSIDE,
     BLOCK_VALID_AT_END, BLOCK_AI, BLOCK_OTHER, BLOCK_NO_OPTIONS, BLOCK_VALID_THREE,
     BLOCK_BLANK_OPTION}

\* pieces per file
MaxPieces == 2

\* the pieces, one after the other, each on lines of its own
RECURSIVE JoinLines(_)
JoinLines(pieces) ==
    IF Len(pieces) = 1 THEN pieces[1]
    ELSE pieces[1] \o <<"\n">> \o JoinLines(Tail(pieces))

\* ## A | 1. Foo bar |    1. y |    2. n | ### B | 1. Foo bar |    1. y |    2. n
EXAM_REPEATED_BLOCK ==
    <<"#", "#", " ", "A", "\n", "1", ".", " ", "F", "o", "o", " ", "b", "a", "r", "\n",
      " ", " ", " ", "1", ".", " ", "y", "\n", " ", " ", " ", "2", ".", " ", "n", "\n",
      "#", "#", "#", " ", "B", "\n", "1", ".", " ", "F", "o", "o", " ", "b", "a", "r",
      "\n", " ", " ", " ", "1", ".", " ", "y", "\n", " ", " ", " ", "2", ".", " ", "n">>

\* whole files: questions under two headings, one of them a duplicate of an
\* earlier one
WholeFiles == {EXAM_MIXED, EXAM_REPEATED_BLOCK}

LoadFiles ==
    {[path |-> "exam.md", exists |-> TRUE, text |-> text] :
        text \in WholeFiles
                 \cup {JoinLines(pieces) :
                          pieces \in UNION {[1..n -> Pieces] : n \in 1..MaxPieces}}}

\* Loading alone: the constructor run on every file of LoadFiles
LoadInit == InitOn(LoadFiles)

LoadNext == Construct

LoadSpec == LoadInit /\ [][LoadNext]_vars

\* ------------------------------------------------------------------------
\* Properties
\* ------------------------------------------------------------------------

\* the callbacks that end in restart_quiz
RestartEvents == {"restart_quiz", "toggle_randomize", "toggle_non_ai_only"}

\* every loaded question carries the [AI-Generated] flag
AllQuestionsAI ==
    /\ questions # <<>>
    /\ \A n \in 1..Len(questions) : questions[n].is_ai

\* C1: when every loaded question is AI-generated and the non-AI-only filter
\* is on, the traversal order is empty, the callback that ran last (the
\* toggle itself, a restart, a randomize or theme toggle, a resize) ended
\* without an exception, and the window is in its "no questions" state: no
\* answer rows, no pending result, click-to-advance not bound.
C1_EmptyOrderIsSafe ==
    (AllQuestionsAI /\ non_ai_var) =>
        /\ question_order = <<>>
        /\ ~raised
        /\ answer_widgets = <<>>
        /\ ~result_shown
        /\ ~button1_bound

\* C2: once advance_to_next has shown the final score, score and
\* questions_answered do not change in any step that is not a restart
\* (restart_quiz, also through the two toggles, clears session_ended).
C2_NoAnswerAfterEnd ==
    [][(session_ended /\ session_ended') =>
          (score' = score /\ questions_answered' = questions_answered)]_vars

\* the question at the first position of the traversal order is on display,
\* not yet answered: its text in the label under number 1, one enabled row
\* per option with no icon, nothing selected
FirstQuestionPresented ==
    LET q == questions[question_order[1] + 1]
    IN  /\ question_text.number = 1
        /\ question_text.question = Strip(RemoveComments(q.question))
        /\ Len(answer_widgets) = Len(q.options)
        /\ \A d \in 1..Len(answer_widgets) :
              answer_widgets[d].state = "normal" /\ answer_widgets[d].icon = ""
        /\ selected_answer = NO_SELECTION

\* C3: after restart_quiz, toggle_randomize or toggle_non_ai_only, score,
\* questions_answered and current_question_index are 0, no result is shown,
\* and when the traversal order has a first element that question is
\* presented un-answered.
C3_RestartResets ==
    event \in RestartEvents =>
        /\ score = 0
        /\ questions_answered = 0
        /\ current_question_index = 0
        /\ ~result_shown
        /\ (question_order # <<>> => FirstQuestionPresented)

\* C3 witness: a restart on a shuffled order of at least two questions with
\* the session back at its start
C3_Witness ==
    /\ event = "restart_quiz"
    /\ randomized
    /\ Len(question_order) >= 2
    /\ question_order[1] # unique_questions[1]
    /\ score = 0
    /\ questions_answered = 0

\* the question at the current position of the traversal order
CurrentQuestion == questions[question_order[current_question_index + 1] + 1]

\* a step in which show_result records an answer
AnswerRecorded ==
    /\ event' = "on_radio_selected"
    /\ ~result_shown
    /\ result_shown'

\* the option chosen in that step, by its index in the file
ChosenFileIndex == shuffled_option_indices[selected_answer' + 1]

\* the text on the radio button chosen in that step
ChosenText == answer_widgets[selected_answer' + 1].text

\* the first valid_answers options of a question, in file order
LeadingOptions(q) ==
    {q.options[k] : k \in {k \in 1..Len(q.options) : k <= q.valid_answers}}

\* C4: whatever the display order, the option chosen at display position d
\* is judged correct (score goes up by one) exactly when its index in the
\* file, shuffled_option_indices[d], is below the question's valid-answer
\* count, that is, exactly when the text on the chosen radio button is one
\* of the first valid_answers options of the file; otherwise score stays.
C4_CorrectIffFileIndexBelowValid ==
    [][AnswerRecorded =>
          /\ score' \in {score, score + 1}
          /\ (score' = score + 1) <=> (ChosenFileIndex < CurrentQuestion.valid_answers)
          /\ (score' = score + 1) <=> (ChosenText \in LeadingOptions(CurrentQuestion))
          /\ ChosenText = CurrentQuestion.options[ChosenFileIndex + 1]]_vars

\* C4 witness: valid: 2 on options [A, B, C, D]; the first display row holds
\* D, it was chosen and judged incorrect, while rows holding A and B carry
\* the check icon further down
C4_Witness ==
    /\ result_shown
    /\ question_order # <<>>
    /\ Len(CurrentQuestion.options) = 4
    /\ CurrentQuestion.valid_answers = 2
    /\ selected_answer = 0
    /\ shuffled_option_indices[1] = 3
    /\ answer_widgets[1].text = <<"D">>
    /\ answer_widgets[1].icon = "cross"
    /\ score = 0
    /\ questions_answered = 1

\* C5: a recorded answer adds exactly 1 to questions_answered and adds 1 to
\* score when the answer is correct, 0 otherwise; no other step makes score
\* or questions_answered grow; score <= questions_answered in every state.
C5_ScoreCountsCorrectAnswers ==
    /\ [](score <= questions_answered)
    /\ [][/\ AnswerRecorded =>
                /\ questions_answered' = questions_answered + 1
                /\ score' = score + (IF ChosenFileIndex < CurrentQuestion.valid_answers
                                     THEN 1 ELSE 0)
          /\ (score' > score \/ questions_answered' > questions_answered) =>
                AnswerRecorded]_vars

\* C5 witness: a wrong answer and a correct one have both been recorded
C5_Witness ==
    /\ questions_answered = 2
    /\ score = 1
    /\ result_shown

\* the elements of a list
Elements(list) == {list[k] : k \in 1..Len(list)}

NoRepeats(list) == \A a, b \in 1..Len(list) : list[a] = list[b] => a = b

\* C6: question_order never repeats an index, and its elements are exactly
\* the indices of unique_questions that pass the filter as it stands: all of
\* them when the filter is off, those of questions not flagged AI when it is
\* on (so successive randomize toggles under one filter state give
\* permutations of one index set).
C6_OrderIsFilteredUniqueSet ==
    /\ NoRepeats(unique_questions)
    /\ NoRepeats(question_order)
    /\ Elements(question_order) =
          {i \in Elements(unique_questions) : ~(non_ai_var /\ questions[i + 1].is_ai)}

\* C6 witness: randomize and the filter are both on and the two questions
\* that pass the filter are in the order opposite to the file's
C6_Witness ==
    /\ randomized
    /\ non_ai_var
    /\ Len(unique_questions) = 3
    /\ question_order = <<2, 0>>

\* C7 as stated: while randomize is on, restart_quiz can leave any
\* permutation of the filtered unique indices as the traversal order.
C7_RestartReshuffles ==
    (pc = "mainloop" /\ randomized) =>
        \A order \in Shuffles(FilteredIndices(self)) :
            \E o \in RestartOutcomes : o.question_order = order

\* C7 amended: a toggle that leaves randomize on (toggle_randomize switching
\* it on, toggle_non_ai_only while it is on) can leave any permutation of
\* the filtered unique indices as the traversal order, and only those;
\* restart_quiz does not reshuffle, it keeps question_order as it is.
C7_TogglesReshuffleRestartKeeps ==
    pc = "mainloop" =>
        /\ ~randomized =>
              {o.question_order : o \in RandomizeOutcomes}
                  = Shuffles(FilteredIndices(self))
        /\ randomized =>
              {o.question_order : o \in NonAiOnlyOutcomes}
                  = Shuffles(FilteredIndices([self EXCEPT !.non_ai_var = ~@]))
        /\ \A o \in RestartOutcomes : o.question_order = question_order

\* C7 witness: after a restart under randomize the order is still the
\* shuffled one (neither file order nor a new draw was needed to reach it)
C7_Witness ==
    /\ event = "restart_quiz"
    /\ randomized
    /\ question_order = <<2, 1, 0>>

\* loading failed: no path, no such file, or no valid question in the file
LoadFailed ==
    /\ pc = "mainloop"
    /\ \/ exam_file = NO_PATH
       \/ ~file_exists
       \/ messagebox = "No valid questions found"

\* C8: after a failed load the question set and the traversal order are
\* empty and stay so under every later event, no callback raises, score and
\* questions_answered are 0 and nothing is presented (empty label, no
\* answer rows, click-to-advance not bound); the error was shown.
C8_FailedLoadIsTerminal ==
    LoadFailed =>
        /\ messagebox # ""
        /\ questions = <<>>
        /\ unique_questions = <<>>
        /\ question_order = <<>>
        /\ ~raised
        /\ score = 0
        /\ questions_answered = 0
        /\ current_question_index = 0
        /\ question_text.question = <<>>
        /\ answer_widgets = <<>>
        /\ ~button1_bound
        /\ ~result_shown

\* C8 witness: a file without any valid question, and the user has gone on
\* to toggle the filter and the theme and to restart
C8_Witness ==
    /\ LoadFailed
    /\ exam_file # NO_PATH
    /\ file_exists
    /\ non_ai_var
    /\ dark_mode
    /\ event = "restart_quiz"

\* a question text with its HTML comments and punctuation characters taken
\* out and its whitespace normalised (runs collapsed, ends trimmed): two
\* texts that differ only in comments, punctuation of the set . , ; : ( )
\* or whitespace have the same canonical text
Canonical(text) ==
    Strip(CollapseWhitespace(RemovePunctuation(RemoveComments(text))))

\* the unique questions that stand for the duplicate group of a key
Representatives(key) ==
    {u \in Elements(unique_questions) : questions[u + 1].key = key}

\* C9: two loaded questions whose texts differ only by an HTML comment, by
\* punctuation of the set . , ; : ( ) or by whitespace have the same key and
\* are merged: one index in unique_questions stands for both, and its
\* duplicate_sources hold the section of each.
C9_NoiseVariantsShareKey ==
    \A m, n \in 1..Len(questions) :
        Canonical(questions[m].question) = Canonical(questions[n].question) =>
            /\ questions[m].key = questions[n].key
            /\ \E u \in Elements(unique_questions) :
                  /\ Representatives(questions[m].key) = {u}
                  /\ Representatives(questions[n].key) = {u}
                  /\ questions[m].source_exam \in Elements(questions[u + 1].duplicate_sources)
                  /\ questions[n].source_exam \in Elements(questions[u + 1].duplicate_sources)

\* C10: after load_questions the number of unique questions is at most the
\* number of question records, and equals it exactly when no two records
\* have the same key.
C10_UniqueCountAtMostTotal ==
    pc = "mainloop" =>
        /\ Len(unique_questions) <= Len(questions)
        /\ (Len(unique_questions) = Len(questions)) <=>
              (\A m, n \in 1..Len(questions) :
                   questions[m].key = questions[n].key => m = n)

\* C10 witness: two question records with different texts and one key,
\* merged into a single unique question
C10_Witness ==
    /\ pc = "mainloop"
    /\ Len(questions) = 2
    /\ questions[1].key = questions[2].key
    /\ questions[1].question # questions[2].question
    /\ unique_questions = <<0>>

\* the positions (1-based) of the loaded questions that have the key
Members(key) == {n \in 1..Len(questions) : questions[n].key = key}

\* the place of n among the elements of S taken in ascending order
Rank(S, n) == Cardinality({m \in S : m <= n})

\* the duplicate_count values of the questions at the given indices, added up
RECURSIVE SumOfCounts(_)
SumOfCounts(indices) ==
    IF indices = <<>> THEN 0
    ELSE questions[indices[1] + 1].duplicate_count + SumOfCounts(Tail(indices))

\* C11: for every group of loaded questions with one key, unique_questions
\* holds exactly one index of the group, once, and it is the index of the
\* group's first question in the file; that question's duplicate_count is
\* the size of the group and its duplicate_sources hold, in file order, the
\* section recorded for each member (its source_exam); the duplicate_count
\* values of the unique questions add up to the number of loaded questions.
C11_GroupHasFirstAsRepresentative ==
    pc = "mainloop" =>
        /\ NoRepeats(unique_questions)
        /\ \A n \in 1..Len(questions) :
              LET group == Members(questions[n].key)
                  first == CHOOSE m \in group : \A k \in group : m <= k
                  base == questions[first]
              IN  /\ Representatives(questions[n].key) = {first - 1}
                  /\ base.duplicate_count = Cardinality(group)
                  /\ Len(base.duplicate_sources) = Cardinality(group)
                  /\ \A m \in group :
                        base.duplicate_sources[Rank(group, m)] = questions[m].source_exam
        /\ SumOfCounts(unique_questions) = Len(questions)

\* C11 witness: four questions, the first and the last with one key under
\* different headings; three unique questions, the first of them counted
\* twice with the sections of both members
C11_Witness ==
    /\ pc = "mainloop"
    /\ Len(questions) = 4
    /\ unique_questions = <<0, 1, 2>>
    /\ questions[1].key = questions[4].key
    /\ questions[1].duplicate_count = 2
    /\ questions[1].duplicate_sources = <<<<"A">>, <<"B">>>>

\* the blocks of the file that load_questions turns into question records,
\* by their place in the file
LoadedSpans ==
    SelectSeq(BlockSpans(content, 1),
              LAMBDA sp : ParseBlock(content, SubSeq(content, sp.first, sp.last)) # <<>>)

\* the text of the last heading line that lies before position pos of the
\* file, "Unknown Exam" when no heading line does
NearestHeadingBefore(pos) ==
    LET above == {n \in SectionLines(content) : n <= CountNewlines(content, pos - 1)}
    IN  IF above = {} THEN UNKNOWN_EXAM ELSE SectionName(content, Max(above))

\* C12: the n-th loaded question comes from the n-th block that has options,
\* and its source_exam is the text of the nearest heading line above that
\* block's own place in the file, "Unknown Exam" when no heading is above it
\* (whatever headings follow, and also when the same block text occurs
\* earlier in the file under another heading).
C12_SectionIsNearestHeadingAbove ==
    pc = "mainloop" =>
        /\ Len(questions) = Len(LoadedSpans)
        /\ \A n \in 1..Len(questions) :
              questions[n].source_exam = NearestHeadingBefore(LoadedSpans[n].first)

\* C13: every question record produced by load_questions has a valid-answer
\* count that is at most its number of options, with and without a valid: N
\* comment in its block.
C13_ValidAnswersAtMostOptions ==
    \A n \in 1..Len(questions) :
        questions[n].valid_answers <= Len(questions[n].options)

\* the lines of the n-th block that became a question record
LoadedLines(n) ==
    SplitLines(Strip(SubSeq(content, LoadedSpans[n].first, LoadedSpans[n].last)))

\* the first line of that block after its number prefix
FirstLineText(n) == From(LoadedLines(n)[1], NumberPrefixEnd(LoadedLines(n)[1], 1))

\* a text with every [AI-Generated] token taken out, trimmed
RECURSIVE WithoutMarker(_)
WithoutMarker(text) ==
    LET at == Find(text, AI_MARKER)
    IN  IF at < 0 THEN Strip(text)
        ELSE WithoutMarker(SubSeq(text, 1, at) \o From(text, at + 1 + Len(AI_MARKER)))

\* C14: the stored question text is the first line of the block without the
\* [AI-Generated] token; the token sets is_ai and is found neither in the
\* stored text nor in the key, so two questions whose first lines differ
\* only by the token have one key.
C14_MarkerRemovedFromText ==
    pc = "mainloop" =>
        \A n \in 1..Len(questions) :
            /\ questions[n].is_ai = Contains(FirstLineText(n), AI_MARKER)
            /\ questions[n].question = WithoutMarker(FirstLineText(n))
            /\ ~Contains(questions[n].question, AI_MARKER)
            /\ ~Contains(questions[n].key, Lower(AI_MARKER))
            /\ \A m \in 1..Len(questions) :
                  WithoutMarker(FirstLineText(m)) = WithoutMarker(FirstLineText(n)) =>
                      questions[m].key = questions[n].key

\* the blocks of the file that have at least one option line with text
BlocksWithOptions ==
    SelectSeq(BlockSpans(content, 1),
              LAMBDA sp :
                  LET lines == SplitLines(Strip(SubSeq(content, sp.first, sp.last)))
                  IN  \E k \in 2..Len(lines) : OptionText(lines[k]) # <<>>)

\* C15: a block without any option line that has text is dropped and
\* nothing is raised or reported for it: the question records are, one for
\* one and in file order, the blocks that do have such a line, each record
\* has a non-empty option list, unique_questions only points at records,
\* and a file with at least one good block shows no error.
C15_BlocksWithoutOptionsDropped ==
    pc = "mainloop" =>
        /\ ~raised
        /\ Len(questions) = Len(BlocksWithOptions)
        /\ LoadedSpans = BlocksWithOptions
        /\ \A n \in 1..Len(questions) :
              /\ questions[n].options # <<>>
              /\ questions[n].question = Strip(FirstLineText(n))
        /\ Elements(unique_questions) \subseteq 0..(Len(questions) - 1)
        /\ (BlocksWithOptions # <<>> => messagebox = "")
        /\ (BlocksWithOptions = <<>> => unique_questions = <<>>)

\* C15 witness: a file of two blocks, the first with a blank option line and
\* a note only; one question, the one of the second block
C15_Witness ==
    /\ pc = "mainloop"
    /\ Len(BlockSpans(content, 1)) = 2
    /\ Contains(content, <<"Q", "u", "u", "z">>)
    /\ Len(questions) = 1
    /\ questions[1].question = <<"F", "o", "o", " ", "b", "a", "r">>
    /\ unique_questions = <<0>>
    /\ messagebox = ""

StrictlyAscending(list) == \A a, b \in 1..Len(list) : a < b => list[a] < list[b]

\* C16: while randomize is off the traversal order is the unique-question
\* indices that pass the filter as it stands, in ascending file order (the
\* unique indices themselves ascend: first occurrences in file order), so
\* it is determined by the question set and the filter state.
C16_SequentialOrderIsFileOrder ==
    (pc = "mainloop" /\ ~randomized) =>
        /\ StrictlyAscending(unique_questions)
        /\ StrictlyAscending(question_order)
        /\ Elements(question_order) =
              {i \in Elements(unique_questions) : ~(non_ai_var /\ questions[i + 1].is_ai)}

\* C16 witness: randomize has just been switched off again with the filter
\* on, and the two questions that pass are back in file order
C16_Witness ==
    /\ event = "toggle_randomize"
    /\ ~randomized
    /\ non_ai_var
    /\ Len(questions) = 4
    /\ question_order = <<0, 2>>

\* C17: in every state, theme toggles and resizes included, no question of
\* the traversal order has been answered more than once since the last
\* restart: questions_answered is at most the number of questions presented
\* so far (current_question_index + 1) and score is at most the length of
\* the traversal order.
C17_AnsweredAtMostPresented ==
    /\ questions_answered <= current_question_index + 1
    /\ score <= Len(question_order)

\* C18: whenever the traversal order is non-empty the position is one of its
\* indices, 0 <= current_question_index < len(question_order), so
\* question_order[current_question_index] is never out of range; an advance
\* from the last position leaves the position where it is.
C18_PositionWithinOrder ==
    /\ [](question_order # <<>> =>
             /\ 0 <= current_question_index
             /\ current_question_index < Len(question_order)
             /\ get_current_question(self).kind = "question")
    /\ [][(event' = "advance_to_next"
              /\ current_question_index = Len(question_order) - 1) =>
                 current_question_index' = current_question_index]_vars

\* C18 witness: the advance from the last of at least two positions has
\* run and the position is still the last one
C18_Witness ==
    /\ event = "advance_to_next"
    /\ session_ended
    /\ Len(question_order) >= 2
    /\ current_question_index = Len(question_order) - 1

\* C19: when advance_to_next ends the session, the total of the final score
\* is the number of questions of the traversal order, the questions the
\* user was presented with, whatever the filter and whether or not the file
\* has duplicate questions.
C19_FinalTotalIsOrderLength ==
    (event = "advance_to_next" /\ session_ended) =>
        /\ status_label.kind = "end"
        /\ status_label.total = Len(question_order)

\* the callbacks that present a question or end the session
PresentingEvents ==
    {"__init__", "restart_quiz", "toggle_randomize", "toggle_non_ai_only",
     "toggle_theme", "advance_to_next"}

\* C20: <Button-1> is bound to advance_to_next only from the recording of an
\* answer until the next advance or presentation: while it is bound the
\* question on display has its answer recorded (result shown, a row chosen,
\* every row disabled); only a recorded answer binds it, every presentation
\* and every advance unbinds it; and the position grows only by an advance
\* that found the answer of the presented question recorded, one step at a
\* time.
C20_AdvanceOnlyAfterAnswer ==
    /\ [](button1_bound =>
             /\ result_shown
             /\ question_order # <<>>
             /\ selected_answer # NO_SELECTION
             /\ questions_answered >= 1
             /\ \A d \in 1..Len(answer_widgets) : answer_widgets[d].state = "disabled")
    /\ [][/\ (button1_bound' /\ ~button1_bound) => AnswerRecorded
          /\ event' \in PresentingEvents => ~button1_bound'
          /\ current_question_index' > current_question_index =>
                /\ event' = "advance_to_next"
                /\ button1_bound
                /\ result_shown
                /\ current_question_index' = current_question_index + 1]_vars

\* C20 witness: the second question of the order is on display after an
\* advance, its answer has been recorded and the click handler is bound
\* again
C20_Witness ==
    /\ event = "on_radio_selected"
    /\ current_question_index = 1
    /\ questions_answered = 2
    /\ result_shown
    /\ button1_bound

\* what on_radio_selected can leave when it runs with display row d as the
\* value of selected_answer
RadioOutcomes(d) == on_radio_selected([entered EXCEPT !.selected_answer = d])

\* C21: within one presentation of a question at most one answer is
\* recorded: while result_shown is true, on_radio_selected run for any row
\* of the question on display returns at once and changes nothing, score and
\* questions_answered included; and from a state with result_shown no step
\* changes score or questions_answered unless it is one of the callbacks
\* that go through show_question or restart (which begin a new
\* presentation).
C21_OneAnswerPerPresentation ==
    /\ []((pc = "mainloop" /\ result_shown) =>
             \A d \in 0..(Len(answer_widgets) - 1) :
                 \A o \in RadioOutcomes(d) :
                     /\ o.score = score
                     /\ o.questions_answered = questions_answered
                     /\ o.result_shown
                     /\ o.answer_widgets = answer_widgets)
    /\ [][(result_shown /\ event' \notin PresentingEvents) =>
             (score' = score /\ questions_answered' = questions_answered)]_vars
    /\ [][AnswerRecorded =>
             (\A d \in 1..Len(answer_widgets') : answer_widgets'[d].state = "disabled")]_vars

\* C21 witness: a wrong answer to a two-option question has been recorded,
\* the other row (the correct one) is still on display, and the window has
\* been resized since
C21_Witness ==
    /\ result_shown
    /\ event = "on_window_resize"
    /\ Len(answer_widgets) = 2
    /\ questions_answered = 1
    /\ score = 0
    /\ \E d \in 1..2 : answer_widgets[d].icon = "check"

\* C22: toggle_theme and on_window_resize leave score, questions_answered,
\* current_question_index, question_order, the randomize flag (the field
\* and the checkbutton variable) and the filter flag as they were, in
\* whatever state they run.
C22_ThemeAndResizeKeepProgress ==
    [][event' \in {"toggle_theme", "on_window_resize"} =>
          /\ score' = score
          /\ questions_answered' = questions_answered
          /\ current_question_index' = current_question_index
          /\ question_order' = question_order
          /\ randomized' = randomized
          /\ randomize_var' = randomize_var
          /\ non_ai_var' = non_ai_var]_vars

\* C22 witness: the theme was toggled in the middle of a session, at the
\* second question of a shuffled, filtered order with one point scored and
\* the window resized before
C22_Witness ==
    /\ event = "toggle_theme"
    /\ dark_mode
    /\ window_width = 800
    /\ randomized
    /\ non_ai_var
    /\ current_question_index = 1
    /\ score = 1
    /\ questions_answered = 1
    /\ question_order = <<2, 0>>

====
